---------------------------- MODULE Spec2Model ----------------------------
(***************************************************************************)
(* Genetic hyper-parameter search of automatminer/automl/nn/genetic.py.    *)
(*                                                                         *)
(* The file holds one class, NNGA, and one dataclass, NNModelInfo.  The    *)
(* live constructor stops at its second statement (an unbound name), the   *)
(* live fit() stops at an unbound name too, and the generation step only   *)
(* exists in full in the commented-out block at the end of the file.  The  *)
(* model therefore has one operation per method AND one per fragment of a  *)
(* method: a caller (pc = "idle") calls an operation with inputs drawn  *)
(* from bounded sets, the operation runs to "done" or to "raised".           *)
(*                                                                         *)
(* A Python dict is an insertion-ordered mapping; it is modelled as a      *)
(* sequence of <<key, value>> pairs with distinct keys.  None is a record  *)
(* with none = TRUE, so that it is comparable with a dict.                 *)
(***************************************************************************)
EXTENDS Integers, Sequences, FiniteSets, TLC

VARIABLES op, pc, err,
          pop_size, reg_metric, clf_metric,
          self_pop_size, reg_scorer, clf_scorer,
          param_pop, i, self_pop,
          mode, gen, gen_pop, k,
          args, refs, mother, father, babies,
          g_pop, grades, parents, j, male, female, children,
          result

ctorVars == <<pop_size, reg_metric, clf_metric, self_pop_size, reg_scorer,
              clf_scorer, param_pop, i, self_pop>>

evolveVars == <<mode, gen, gen_pop, k>>

pureVars == <<args, refs, mother, father, babies>>

genVars == <<g_pop, grades, parents, j, male, female, children, result>>

vars == <<op, pc, err, ctorVars, evolveVars, pureVars, genVars>>

---------------------------------------------------------------------------
(* Bounds of the model.                                                    *)

MaxUnits == 2          \* "units" ranges over 1..MaxUnits
MaxPop == 3            \* pop_size argument of the population initializer
MaxEvolvePop == 2      \* individuals in self.pop when evolve() is called
MaxGen == 1            \* generation indices are 0..MaxGen
MaxGenPop == 3         \* len(pop) of the generation step

---------------------------------------------------------------------------
(* Python values.                                                          *)

None == [none |-> TRUE, d |-> <<>>]
Some(d) == [none |-> FALSE, d |-> d]

Range(s) == {s[n] : n \in DOMAIN s}

Keys(d) == {d[n][1] : n \in DOMAIN d}

Get(d, key) == LET n == CHOOSE n \in DOMAIN d : d[n][1] = key IN d[n][2]

\* d[k] = v : an existing key keeps its position, a new key is appended
SetItem(d, key, v) ==
    IF key \in Keys(d)
    THEN [n \in DOMAIN d |-> IF d[n][1] = key THEN <<key, v>> ELSE d[n]]
    ELSE Append(d, <<key, v>>)

\* dict.__eq__ : equal as mappings, whatever the insertion order
DictEq(a, b) == Range(a) = Range(b)

\* p == params where p is None or a dict (None == dict is False)
SlotEq(p, params) == (~p.none) /\ DictEq(p.d, params)

---------------------------------------------------------------------------
(* param_grid (the grid is an argument of NNGA): the two integer-valued    *)
(* parameters of the default grid, "units" cut down to 1..MaxUnits and     *)
(* "hidden_layer_sizes" as range(1, 3), the range of the grid at line 213. *)

param_grid == << <<"units", 1..MaxUnits>>,
                 <<"hidden_layer_sizes", 1..2>> >>

GridValues == UNION {param_grid[n][2] : n \in DOMAIN param_grid}

GridNames == [n \in DOMAIN param_grid |-> param_grid[n][1]]

\* a sampler that can step outside the allowed set (an off-by-one range)
SampleParams_OffGrid ==
    {d \in [DOMAIN param_grid -> GridValues \cup {0}] :
        \A n \in DOMAIN param_grid : d[n] \in param_grid[n][2] \cup {0}}

\* {p: random.choice(g) for p, g in param_grid.items()} : every outcome
SampleParams ==
    {d \in [DOMAIN param_grid -> GridValues] :
        \A n \in DOMAIN param_grid : d[n] \in param_grid[n][2]}

ParamsOf(d) == [n \in DOMAIN param_grid |-> <<param_grid[n][1], d[n]>>]

AllParams == {ParamsOf(d) : d \in SampleParams}

---------------------------------------------------------------------------
(* NNModelInfo                                                             *)

NoScore == <<>>

NNModelInfo(p, g) ==
    [params |-> p, gen |-> g, score |-> NoScore,
     parents |-> None, children |-> None]

\* OrderedDict(self.params): keeps the insertion order of params
ordered_params(nn) == nn.params.d

\* str(OrderedDict([...])) lists the pairs in order
Str(od) == <<"OrderedDict", od>>

\* sha1(...).hexdigest(): one digest per string
Sha1(s) == <<"sha1", s>>

ref(nn) == <<"model_", Sha1(Str(ordered_params(nn)))>>

\* OrderedDict(None) raises TypeError
RefRaises(nn) == nn.params.none

---------------------------------------------------------------------------
(* Metric tables of NNGA.__init__                                          *)

reg_metrics == {<<"neg_mae", "neg_mean_absolute_error">>,
                <<"neg_mse", "neg_mean_squared_error">>}

clf_metrics == {<<"f1", "f1_score">>,
                <<"roc_auc", "roc_auc_score">>,
                <<"accuracy", "accuracy_score">>}

DefaultRegMetric == "mae"
DefaultClfMetric == "f1"
DefaultPopSize == 15
HardPopSize == 15

Lookup(table, key) == (CHOOSE e \in table : e[1] = key)[2]
HasKey(table, key) == \E e \in table : e[1] = key

RegMetricArgs == {e[1] : e \in reg_metrics} \cup {DefaultRegMetric}
ClfMetricArgs == {e[1] : e \in clf_metrics} \cup {DefaultClfMetric}

Unset == "unset"
UnsetPop == [kind |-> "unset", items |-> <<>>]

\* the names bound in the module's globals or in __init__'s locals
BoundNames == {"param_grid", "selection_rate", "random_rate", "mutation_rate",
               "elitism_rate", "pop_size", "reg_metric", "clf_metric", "pbar",
               "random", "NNModelInfo", "NNWrapper"}

---------------------------------------------------------------------------
Init ==
    /\ op = "none"
    /\ pc = "idle"
    /\ err = "none"
    /\ pop_size = 0
    /\ reg_metric = Unset
    /\ clf_metric = Unset
    /\ self_pop_size = 0
    /\ reg_scorer = Unset
    /\ clf_scorer = Unset
    /\ param_pop = <<>>
    /\ i = 0
    /\ self_pop = UnsetPop
    /\ mode = "None"
    /\ gen = 0
    /\ gen_pop = <<>>
    /\ k = 0
    /\ args = <<>>
    /\ refs = <<>>
    /\ mother = <<>>
    /\ father = <<>>
    /\ babies = <<>>
    /\ g_pop = <<>>
    /\ grades = <<>>
    /\ parents = <<>>
    /\ j = 0
    /\ male = 0
    /\ female = 0
    /\ children = <<>>
    /\ result = <<>>

---------------------------------------------------------------------------
(* NNGA.__init__, the whole constructor (lines 54-89).  Line 57 binds      *)
(* self.param_grid; line 58 reads random_select, which is neither a        *)
(* parameter nor a module global, and raises NameError.  Nothing after     *)
(* line 58 runs.                                                           *)

Construct(ps, rm, cm) ==
    /\ pc = "idle"
    /\ "random_select" \notin BoundNames
    /\ op' = "__init__"
    /\ pc' = "raised"
    /\ err' = "NameError"
    /\ pop_size' = ps
    /\ reg_metric' = rm
    /\ clf_metric' = cm
    /\ self_pop_size' = 0
    /\ reg_scorer' = Unset
    /\ clf_scorer' = Unset
    /\ param_pop' = <<>>
    /\ i' = 0
    /\ self_pop' = UnsetPop
    /\ UNCHANGED <<evolveVars, pureVars, genVars>>

---------------------------------------------------------------------------
(* The metric lookup of __init__ (lines 65-77), entered on its own.        *)

MetricLookup(rm, cm) ==
    /\ pc = "idle"
    /\ op' = "metrics"
    /\ pop_size' = 0
    /\ self_pop_size' = 0
    /\ param_pop' = <<>>
    /\ i' = 0
    /\ self_pop' = UnsetPop
    /\ reg_metric' = rm
    /\ clf_metric' = cm
    /\ UNCHANGED <<evolveVars, pureVars, genVars>>
    /\ IF ~HasKey(reg_metrics, rm)
       THEN /\ reg_scorer' = Unset
            /\ clf_scorer' = Unset
            /\ pc' = "raised"
            /\ err' = "KeyError"
       ELSE IF ~HasKey(clf_metrics, cm)
       THEN /\ reg_scorer' = Lookup(reg_metrics, rm)
            /\ clf_scorer' = Unset
            /\ pc' = "raised"
            /\ err' = "KeyError"
       ELSE /\ reg_scorer' = Lookup(reg_metrics, rm)
            /\ clf_scorer' = Lookup(clf_metrics, cm)
            /\ pc' = "done"
            /\ err' = "none"

---------------------------------------------------------------------------
(* The population initializer of __init__ (line 60 and lines 79-88),       *)
(* entered on its own with a target size.                                  *)

\* self.pop_size = 15 ; param_pop = [None] * pop_size
PopInitEnter(ps) ==
    /\ pc = "idle"
    /\ op' = "pop_init"
    /\ pc' = "init_loop"
    /\ err' = "none"
    /\ pop_size' = ps
    /\ self_pop_size' = HardPopSize
    /\ param_pop' = [n \in 1..ps |-> None]
    /\ i' = 0
    /\ self_pop' = UnsetPop
    /\ reg_metric' = Unset
    /\ clf_metric' = Unset
    /\ reg_scorer' = Unset
    /\ clf_scorer' = Unset
    /\ UNCHANGED <<evolveVars, pureVars, genVars>>

\* a check that only looks at the slots that are still None
IsDuplicate_OnlyNone(pp, params) ==
    \E n \in DOMAIN pp : pp[n].none /\ SlotEq(pp[n], params)

\* any([p == params for p in param_pop])
IsDuplicate(pp, params) == \E n \in DOMAIN pp : SlotEq(pp[n], params)

\* one iteration of  for i in range(pop_size)  (i counts from 0)
PopInitIter(params) ==
    /\ pc = "init_loop"
    /\ i < pop_size
    /\ param_pop' = IF IsDuplicate(param_pop, params)
                    THEN param_pop
                    ELSE [param_pop EXCEPT ![i + 1] = Some(params)]
    /\ i' = i + 1
    /\ UNCHANGED <<op, pc, err, pop_size, reg_metric, clf_metric,
                   self_pop_size, reg_scorer, clf_scorer, self_pop,
                   evolveVars, pureVars, genVars>>

\* {nn.ref: nn for nn in nns}: a later nn with the same ref replaces the
\* value of the earlier one and keeps its position
RECURSIVE DictComp(_)
DictComp(nns) ==
    IF nns = <<>> THEN <<>>
    ELSE LET front == DictComp(SubSeq(nns, 1, Len(nns) - 1))
             last == nns[Len(nns)]
         IN IF \E n \in DOMAIN front : ref(front[n]) = ref(last)
            THEN [n \in DOMAIN front |->
                     IF ref(front[n]) = ref(last) THEN last ELSE front[n]]
            ELSE Append(front, last)

\* nns = [NNModelInfo(p, 0) for p in param_pop]
Nns(pp) == [n \in DOMAIN pp |-> NNModelInfo(pp[n], 0)]

\* lines 87-88
PopInitFinish ==
    /\ pc = "init_loop"
    /\ i = pop_size
    /\ LET nns == Nns(param_pop)
       IN IF \E n \in DOMAIN nns : RefRaises(nns[n])
          THEN /\ pc' = "raised"
               /\ err' = "TypeError"
               /\ self_pop' = self_pop
          ELSE /\ pc' = "done"
               /\ err' = "none"
               /\ self_pop' = [kind |-> "dict", items |-> DictComp(nns)]
    /\ UNCHANGED <<op, pop_size, reg_metric, clf_metric, self_pop_size,
                   reg_scorer, clf_scorer, param_pop, i,
                   evolveVars, pureVars, genVars>>

---------------------------------------------------------------------------
(* NNModelInfo.ref (lines 35-42), applied to two instances.                *)

\* model.predict(X_val) of the model built from params and fit on the
\* training split
Predict(params) == [model |-> params, X |-> "X_val"]

\* scorer(y_true, y_pred)
Score(scorer, y_true, y_pred) ==
    [fn |-> scorer, y_true |-> y_true, y_pred |-> y_pred]

\* every order of the entries of a sequence
Reorderings(d) ==
    {[n \in DOMAIN d |-> d[f[n]]] :
        f \in {g \in [DOMAIN d -> DOMAIN d] :
                  \A m, n \in DOMAIN d : m # n => g[m] # g[n]}}

AnyOrderParams == UNION {Reorderings(d) : d \in AllParams}

Scored(nn) ==
    [nn EXCEPT !.score = <<Score("f1_score", "y_val", Predict(nn.params.d))>>]

RefInputs ==
    UNION {{NNModelInfo(Some(d), g), Scored(NNModelInfo(Some(d), g))} :
              d \in AnyOrderParams, g \in 0..MaxGen}

RefCall(a, b) ==
    /\ pc = "idle"
    /\ op' = "ref"
    /\ pc' = "done"
    /\ err' = "none"
    /\ args' = <<a, b>>
    /\ refs' = <<ref(a), ref(b)>>
    /\ UNCHANGED <<ctorVars, evolveVars, mother, father, babies, genVars>>

---------------------------------------------------------------------------
(* breed (lines 235-242 of the commented-out block), called on its own.    *)

\* one child: {} filled in grid order, each gene from mother or from father
Child(m, f, choice) ==
    [n \in DOMAIN param_grid |->
        <<param_grid[n][1],
          IF choice[n] = 1 THEN Get(m, param_grid[n][1])
                           ELSE Get(f, param_grid[n][1])>>]

Children(m, f) == {Child(m, f, ch) : ch \in [DOMAIN param_grid -> {1, 2}]}

\* child = mother instead of child = {}: both entries of the list are the
\* mother's own dict, overwritten gene by gene
breed_Aliased(m, f) ==
    {[mother |-> c, father |-> f, children |-> <<c, c>>] :
        c \in Children(m, f)}

\* every outcome of breed(mother, father): the two parents as they are left
\* and the list returned
breed(m, f) ==
    {[mother |-> m, father |-> f, children |-> <<c1, c2>>] :
        c1 \in Children(m, f), c2 \in Children(m, f)}

BreedCall(m, f) ==
    /\ pc = "idle"
    /\ op' = "breed"
    /\ pc' = "breed_body"
    /\ err' = "none"
    /\ args' = <<m, f>>
    /\ mother' = m
    /\ father' = f
    /\ UNCHANGED <<ctorVars, evolveVars, refs, babies, genVars>>

BreedBody ==
    /\ pc = "breed_body"
    /\ \E out \in breed(mother, father) :
          /\ mother' = out.mother
          /\ father' = out.father
          /\ babies' = out.children
    /\ pc' = "done"
    /\ UNCHANGED <<op, err, ctorVars, evolveVars, args, refs, genVars>>

---------------------------------------------------------------------------
(* NNGA.evolve (lines 96-120).  self.mode, self.pop and the scorers are    *)
(* attributes of the object the method is called on.  self.pop is either   *)
(* the dict built at line 88 (ref -> NNModelInfo) or a list of NNModelInfo.*)

AMM_REG_NAME == "regression"
AMM_CLF_NAME == "classification"

Modes == {AMM_REG_NAME, AMM_CLF_NAME, "None"}

Individuals == {NNModelInfo(Some(d), g) : d \in AllParams, g \in 0..MaxGen}

SeqsUpTo(S, n) == UNION {[1..m -> S] : m \in 0..n}

EvolvePops ==
    {[kind |-> kd, items |-> it] :
        kd \in {"dict", "list"}, it \in SeqsUpTo(Individuals, MaxEvolvePop)}

\* the keys of a dict are distinct
WellFormedPop(p) ==
    p.kind = "dict" =>
        \A m, n \in DOMAIN p.items :
            m # n => ref(p.items[m]) # ref(p.items[n])

\* [i for i in self.pop if i.gen == gen] over a list: the positions kept
RECURSIVE GenPop(_, _)
GenPop(items, g) ==
    IF items = <<>> THEN <<>>
    ELSE LET front == GenPop(SubSeq(items, 1, Len(items) - 1), g)
         IN IF items[Len(items)].gen = g
            THEN Append(front, Len(items))
            ELSE front

\* lines 96-99: iterating a dict yields its keys, which are str and have no
\* attribute gen
EvolveCall(m, p, g, rs, cs) ==
    /\ pc = "idle"
    /\ WellFormedPop(p)
    /\ op' = "evolve"
    /\ mode' = m
    /\ self_pop' = p
    /\ gen' = g
    /\ reg_scorer' = rs
    /\ clf_scorer' = cs
    /\ k' = 0
    /\ IF p.kind = "dict" /\ p.items # <<>>
       THEN /\ pc' = "raised"
            /\ err' = "AttributeError"
            /\ gen_pop' = <<>>
       ELSE /\ pc' = "evaluate"
            /\ err' = "none"
            /\ gen_pop' = IF p.kind = "dict" THEN <<>> ELSE GenPop(p.items, g)
    /\ UNCHANGED <<pop_size, reg_metric, clf_metric, self_pop_size,
                   param_pop, i, pureVars, genVars>>

\* the two branches exchanged
SelectScorer_Swapped(m, rs, cs) ==
    IF m = AMM_REG_NAME THEN cs
    ELSE IF m = AMM_CLF_NAME THEN rs
    ELSE "ValueError"

\* the scorer chosen at lines 104-107, "ValueError" for the else branch
SelectScorer(m, rs, cs) ==
    IF m = AMM_REG_NAME THEN rs
    ELSE IF m = AMM_CLF_NAME THEN cs
    ELSE "ValueError"

\* lines 100-115 for the next individual of gen_pop
EvalIndividual ==
    /\ pc = "evaluate"
    /\ k < Len(gen_pop)
    /\ LET n == gen_pop[k + 1]
           individual == self_pop.items[n]
           y_pred == Predict(individual.params.d)
           scorer == SelectScorer(mode, reg_scorer, clf_scorer)
       IN IF scorer = "ValueError"
          THEN /\ pc' = "raised"
               /\ err' = "ValueError"
               /\ UNCHANGED <<self_pop, k>>
          ELSE /\ self_pop' = [self_pop EXCEPT
                    !.items[n].score = <<Score(scorer, "y_val", y_pred)>>]
               /\ k' = k + 1
               /\ UNCHANGED <<pc, err>>
    /\ UNCHANGED <<op, pop_size, reg_metric, clf_metric, self_pop_size,
                   reg_scorer, clf_scorer, param_pop, i, mode, gen, gen_pop,
                   pureVars, genVars>>

\* lines 117-120: child, mother and father are unbound; the right-hand side
\* is evaluated first and mother raises NameError on the first pass
EvolveBreed ==
    /\ pc = "evaluate"
    /\ k = Len(gen_pop)
    /\ IF Len(param_grid) = 0
       THEN /\ pc' = "done"
            /\ err' = "none"
       ELSE /\ pc' = "raised"
            /\ err' = "NameError"
    /\ UNCHANGED <<op, ctorVars, evolveVars, pureVars, genVars>>

RegScorers == {e[2] : e \in reg_metrics}
ClfScorers == {e[2] : e \in clf_metrics}

---------------------------------------------------------------------------
(* NNGA.fit (lines 125-173).  Line 131 sets self.mode; line 140 reads      *)
(* models, which is bound nowhere, and raises NameError: the generation    *)
(* step written at lines 149-173 is never reached through fit.             *)

Fit(m) ==
    /\ pc = "idle"
    /\ "models" \notin BoundNames
    /\ op' = "fit"
    /\ mode' = m
    /\ pc' = "raised"
    /\ err' = "NameError"
    /\ UNCHANGED <<ctorVars, gen, gen_pop, k, pureVars, genVars>>

---------------------------------------------------------------------------
(* The generation step: evolve(pop, X, y) of the commented-out block       *)
(* (lines 249-290; lines 138-173 of fit repeat its text), with mutate      *)
(* (lines 244-247) and breed.  pop is a list of dicts; grades and parents  *)
(* hold references to the dicts of pop, modelled as positions in g_pop.    *)

\* cross_val_score(...).mean(), NaN when a fold's result is NaN
ScoreVals == {[nan |-> TRUE, mean |-> 0]} \cup
             {[nan |-> FALSE, mean |-> m] : m \in 1..2}

\* the defaults of lines 201-202 and of line 54, as <<numerator, denominator>>
random_select == <<5, 100>>
mutate_chance == <<5, 100>>
RetainRates == {<<0, 1>>, <<3, 4>>, <<1, 1>>, <<5, 1>>}

\* the outcomes of  rate > random.random(), random.random() being in [0, 1)
RandomBelow(rate) ==
    IF rate[1] <= 0 THEN {FALSE}
    ELSE IF rate[1] >= rate[2] THEN {TRUE}
    ELSE BOOLEAN

\* int(n * rate) for a rate >= 0
IntOfProduct(n, rate) == (n * rate[1]) \div rate[2]

Min(a, b) == IF a < b THEN a ELSE b

\* s[:n] and s[n:] for n >= 0
SliceTo(s, n) == SubSeq(s, 1, Min(n, Len(s)))
SliceFrom(s, n) == SubSeq(s, Min(n, Len(s)) + 1, Len(s))

\* lines 259-266: the positions of pop that get a grade, in pop order
RECURSIVE Graded(_, _, _)
Graded(n, scores, m) ==
    IF n = 0 THEN <<>>
    ELSE IF m = AMM_REG_NAME \/ ~scores[n].nan
         THEN Append(Graded(n - 1, scores, m), n)
         ELSE Graded(n - 1, scores, m)

InsertAt(s, pos, x) == SubSeq(s, 1, pos - 1) \o <<x>> \o SubSeq(s, pos, Len(s))

\* sorted(grades, key=mean, reverse=True) without NaN keys: descending and
\* stable
RECURSIVE SortDesc(_, _)
SortDesc(s, scores) ==
    IF s = <<>> THEN <<>>
    ELSE LET front == SortDesc(SubSeq(s, 1, Len(s) - 1), scores)
             x == s[Len(s)]
             ahead == Cardinality({n \in DOMAIN front :
                         scores[front[n]].mean >= scores[x].mean})
         IN InsertAt(front, ahead + 1, x)

\* every comparison with a NaN key is False, so the order sorted() leaves
\* depends on which comparisons it makes: any order of the same entries
Sorted(s, scores) ==
    IF \E n \in DOMAIN s : scores[s[n]].nan
    THEN Reorderings(s)
    ELSE {SortDesc(s, scores)}

\* the entries of rest whose flag is set, in order
RECURSIVE Admitted(_, _)
Admitted(rest, flags) ==
    IF rest = <<>> THEN <<>>
    ELSE LET front == Admitted(SubSeq(rest, 1, Len(rest) - 1), flags)
         IN IF flags[Len(rest)] THEN Append(front, rest[Len(rest)])
            ELSE front

\* lines 257-267 for a pop of n models whose mode is m: the rankings that
\* the scores cross_val_score can return lead to
Rankings ==
    [n \in 0..MaxGenPop |->
        [m \in {AMM_REG_NAME, AMM_CLF_NAME} |->
            UNION {Sorted(Graded(n, scores, m), scores) :
                      scores \in [1..n -> ScoreVals]}]]

\* lines 250-267: grade and rank; models[0] raises IndexError for an
\* empty pop
GenStepCall(pop, m) ==
    /\ pc = "idle"
    /\ op' = "gen_step"
    /\ g_pop' = pop
    /\ IF pop = <<>>
       THEN /\ pc' = "raised"
            /\ err' = "IndexError"
            /\ grades' = <<>>
       ELSE /\ pc' = "select"
            /\ err' = "none"
            /\ grades' \in Rankings[Len(pop)][m]
    /\ UNCHANGED <<ctorVars, evolveVars, pureVars, parents, j, male, female,
                   children, result>>

\* lines 268-272: retain the best, re-admit some of the others at random;
\* self.retain is read here, grades is not read again
GenSelect(rate) ==
    /\ pc = "select"
    /\ LET retain_length == IntOfProduct(Len(grades), rate)
           rest == SliceFrom(grades, retain_length)
       IN \E flags \in [DOMAIN rest -> RandomBelow(random_select)] :
             parents' = SliceTo(grades, retain_length) \o Admitted(rest, flags)
    /\ grades' = <<>>
    /\ pc' = "mutate"
    /\ j' = 0
    /\ UNCHANGED <<op, err, ctorVars, evolveVars, pureVars, g_pop, male,
                   female, children, result>>

\* mutate(network): one gene replaced by a value of its allowed set
mutate(network) ==
    UNION {{SetItem(network, param_grid[g][1], choice) :
               choice \in param_grid[g][2]} : g \in DOMAIN param_grid}

\* lines 273-275 for the next parent
GenMutate ==
    /\ pc = "mutate"
    /\ j < Len(parents)
    /\ \E hit \in RandomBelow(mutate_chance) :
          IF hit
          THEN \E network \in mutate(g_pop[parents[j + 1]]) :
                  g_pop' = [g_pop EXCEPT ![parents[j + 1]] = network]
          ELSE g_pop' = g_pop
    /\ j' = j + 1
    /\ UNCHANGED <<op, pc, err, ctorVars, evolveVars, pureVars, grades,
                   parents, male, female, children, result>>

\* lines 276-278
GenBeginFill ==
    /\ pc = "mutate"
    /\ j = Len(parents)
    /\ pc' = "fill"
    /\ children' = <<>>
    /\ UNCHANGED <<op, err, ctorVars, evolveVars, pureVars, g_pop, grades,
                   parents, j, male, female, result>>

desired_length == Len(g_pop) - Len(parents)

\* both babies appended, without the test of line 287
AppendBabies_NoTest(kids, bs, desired) == kids \o bs

\* lines 286-288: a baby is appended only while children is short
RECURSIVE AppendBabies(_, _, _)
AppendBabies(kids, bs, desired) ==
    IF bs = <<>> THEN kids
    ELSE AppendBabies(IF Len(kids) < desired THEN Append(kids, bs[1])
                                             ELSE kids,
                      Tail(bs), desired)

\* lines 279-281: the loop test holds and the two indices are drawn;
\* randint(0, -1) raises ValueError when there is no parent
GenDraw(m, f) ==
    /\ pc = "fill"
    /\ Len(children) < desired_length
    /\ IF Len(parents) = 0
       THEN /\ pc' = "raised"
            /\ err' = "ValueError"
            /\ UNCHANGED <<male, female>>
       ELSE /\ m \in 0..(Len(parents) - 1)
            /\ f \in 0..(Len(parents) - 1)
            /\ male' = m
            /\ female' = f
            /\ pc' = "drawn"
            /\ err' = err
    /\ UNCHANGED <<op, ctorVars, evolveVars, pureVars, g_pop, grades,
                   parents, j, children, result>>

\* lines 282-288: breed when the indices differ, then back to the loop
\* test; male and female are drawn anew before they are read again
GenBreed ==
    /\ pc = "drawn"
    /\ IF male # female
       THEN \E out \in breed(g_pop[parents[male + 1]],
                             g_pop[parents[female + 1]]) :
               children' = AppendBabies(children, out.children,
                                        desired_length)
       ELSE children' = children
    /\ pc' = "fill"
    /\ male' = 0
    /\ female' = 0
    /\ UNCHANGED <<op, err, ctorVars, evolveVars, pureVars, g_pop, grades,
                   parents, j, result>>

\* lines 289-290: parents.extend(children); return parents
GenReturn ==
    /\ pc = "fill"
    /\ Len(children) >= desired_length
    /\ result' = [n \in DOMAIN parents |-> g_pop[parents[n]]] \o children
    /\ pc' = "done"
    /\ UNCHANGED <<op, err, ctorVars, evolveVars, pureVars, g_pop, grades,
                   parents, j, male, female, children>>

---------------------------------------------------------------------------
\* the arguments of a call are drawn when no operation is running
Next ==
    \/ /\ pc = "idle"
       /\ \E ps \in (0..MaxPop) \cup {DefaultPopSize},
             rm \in RegMetricArgs, cm \in ClfMetricArgs :
             Construct(ps, rm, cm)
    \/ /\ pc = "idle"
       /\ \E rm \in RegMetricArgs, cm \in ClfMetricArgs : MetricLookup(rm, cm)
    \/ /\ pc = "idle"
       /\ \E ps \in 0..MaxPop : PopInitEnter(ps)
    \/ /\ pc = "init_loop"
       /\ \E params \in AllParams : PopInitIter(params)
    \/ PopInitFinish
    \/ /\ pc = "idle"
       /\ \E a \in RefInputs, b \in RefInputs : RefCall(a, b)
    \/ /\ pc = "idle"
       /\ \E m \in AllParams, f \in AllParams : BreedCall(m, f)
    \/ BreedBody
    \/ /\ pc = "idle"
       /\ \E m \in Modes, p \in EvolvePops, g \in 0..MaxGen,
             rs \in RegScorers, cs \in ClfScorers :
             EvolveCall(m, p, g, rs, cs)
    \/ EvalIndividual
    \/ EvolveBreed
    \/ /\ pc = "idle"
       /\ \E m \in {AMM_REG_NAME, AMM_CLF_NAME} : Fit(m)

\* the generation step, called on its own
NextGen ==
    \/ /\ pc = "idle"
       /\ \E pop \in SeqsUpTo(AllParams, MaxGenPop),
             m \in {AMM_REG_NAME, AMM_CLF_NAME} : GenStepCall(pop, m)
    \/ \E rate \in RetainRates : GenSelect(rate)
    \/ GenMutate
    \/ GenBeginFill
    \/ \E m, f \in 0..(MaxGenPop - 1) : GenDraw(m, f)
    \/ GenBreed
    \/ GenReturn

---------------------------------------------------------------------------
(* Properties of the population initializer and of the constructor.        *)

\* d holds exactly one value per parameter name of the grid, each a member
\* of the grid's allowed set for that name
CompleteOnGrid(d) ==
    /\ Len(d) = Len(param_grid)
    /\ \A g \in DOMAIN param_grid :
          /\ Cardinality({n \in DOMAIN d : d[n][1] = param_grid[g][1]}) = 1
          /\ Get(d, param_grid[g][1]) \in param_grid[g][2]

\* C4: when the population initializer has completed, every individual of
\* self.pop has a parameter mapping with exactly one value per grid
\* parameter, the value is in the grid's allowed set, and its gen is 0.
C4_InitialPopulationComplete ==
    (op = "pop_init" /\ pc = "done") =>
        \A n \in DOMAIN self_pop.items :
            /\ ~self_pop.items[n].params.none
            /\ CompleteOnGrid(self_pop.items[n].params.d)
            /\ self_pop.items[n].gen = 0

C4_Witness ==
    /\ op = "pop_init"
    /\ pc = "done"
    /\ Len(self_pop.items) >= 2

\* C5 as stated: the deduplication check never rejects a candidate, i.e.
\* every iteration that has run has filled its slot.
C5_CheckNeverRejects ==
    op = "pop_init" => \A n \in 1..i : ~param_pop[n].none

\* C5 amended: the check compares the candidate with the slots filled by
\* earlier iterations and rejects an equal one (its slot stays None), so no
\* two slots of param_pop ever hold equal parameter mappings.
C5_NoTwoSlotsEqual ==
    op = "pop_init" =>
        \A m, n \in DOMAIN param_pop :
            (m # n /\ ~param_pop[m].none /\ ~param_pop[n].none)
                => ~DictEq(param_pop[m].d, param_pop[n].d)

\* a candidate was rejected after an earlier one had been admitted
C5_Witness ==
    /\ op = "pop_init"
    /\ \E m, n \in 1..i : m < n /\ ~param_pop[m].none /\ param_pop[n].none

\* C6: the initializer ends with exactly pop_size individuals in self.pop
\* and with self.pop_size equal to the pop_size argument.
C6_PopulationHasTargetSize ==
    (op = "pop_init" /\ pc \in {"done", "raised"}) =>
        /\ pc = "done"
        /\ Len(self_pop.items) = pop_size
        /\ self_pop_size = pop_size

\* C10: NNGA() with all default arguments completes without error, the
\* default metrics are keys of their tables, and the scorers and the
\* population are set.
C10_DefaultConstructionCompletes ==
    (/\ op = "__init__"
     /\ pop_size = DefaultPopSize
     /\ reg_metric = DefaultRegMetric
     /\ clf_metric = DefaultClfMetric) =>
        /\ pc # "raised"
        /\ HasKey(reg_metrics, DefaultRegMetric)
        /\ HasKey(clf_metrics, DefaultClfMetric)
        /\ reg_scorer # Unset
        /\ clf_scorer # Unset
        /\ self_pop.kind # "unset"

---------------------------------------------------------------------------
(* Properties of evolve, ref and breed.                                    *)

\* C1: a call of evolve with a mode that is neither regression nor
\* classification ends in the ValueError about 'mode', whatever the
\* population and gen, an empty generation included.
C1_InvalidModeRaisesValueError ==
    (/\ op = "evolve"
     /\ mode \notin {AMM_REG_NAME, AMM_CLF_NAME}
     /\ pc \in {"done", "raised"}) =>
        (pc = "raised" /\ err = "ValueError")

\* C2: every individual evolve has evaluated carries as score the result of
\* reg_scorer (mode regression) or clf_scorer (mode classification) called
\* with (y_val, y_pred), y_pred being its own model's prediction on X_val.
C2_ScorerMatchesMode ==
    op = "evolve" =>
        \A n \in 1..k :
            LET individual == self_pop.items[gen_pop[n]]
            IN /\ mode \in {AMM_REG_NAME, AMM_CLF_NAME}
               /\ individual.score =
                     <<Score(IF mode = AMM_REG_NAME THEN reg_scorer
                                                    ELSE clf_scorer,
                             "y_val", Predict(individual.params.d))>>

C2_Witness ==
    /\ op = "evolve"
    /\ mode = AMM_CLF_NAME
    /\ k >= 2
    /\ self_pop.items[gen_pop[1]].params # self_pop.items[gen_pop[2]].params

\* C3: two NNModelInfo whose params are equal as mappings have the same
\* ref, whatever the insertion order, gen, score, parents and children.
C3_EqualMappingsEqualRef ==
    (op = "ref" /\ pc = "done") =>
        (DictEq(args[1].params.d, args[2].params.d) => refs[1] = refs[2])

\* C7: breed returns exactly two children, each with exactly the grid's
\* parameter names, each value taken from the mother or the father for the
\* same parameter, and leaves mother and father as they were passed.
C7_BreedTwoChildrenFromParents ==
    (op = "breed" /\ pc = "done") =>
        /\ Len(babies) = 2
        /\ \A c \in DOMAIN babies :
              /\ Len(babies[c]) = Len(param_grid)
              /\ Keys(babies[c]) = Range(GridNames)
              /\ \A name \in Range(GridNames) :
                    Get(babies[c], name) \in
                        {Get(args[1], name), Get(args[2], name)}
        /\ mother = args[1]
        /\ father = args[2]

\* a child that mixes genes: it is neither the mother nor the father
C7_Witness ==
    /\ op = "breed"
    /\ pc = "done"
    /\ \E c \in DOMAIN babies :
          ~DictEq(babies[c], mother) /\ ~DictEq(babies[c], father)

---------------------------------------------------------------------------
(* Properties of the generation step.                                      *)

\* C8: when the generation step returns, the returned list (retained
\* parents plus children) has exactly len(pop) entries.
C8_GenerationKeepsSize ==
    (op = "gen_step" /\ pc = "done") => Len(result) = Len(g_pop)

\* a return after children were bred to make up for the candidates not kept
C8_Witness ==
    /\ op = "gen_step"
    /\ pc = "done"
    /\ Len(parents) >= 2
    /\ Len(children) >= 1

\* C9: the child-filling loop, once entered, is eventually left.
C9_FillLoopTerminates ==
    (op = "gen_step" /\ pc = "fill") ~> (pc \in {"done", "raised"})

Spec == Init /\ [][Next]_vars

GenSpec == Init /\ [][NextGen]_vars

\* two distinct indices drawn at line 280-281
DrawDistinct == \E m, f \in 0..(MaxGenPop - 1) : m # f /\ GenDraw(m, f)

\* the interpreter keeps running, and random.randint draws fairly: a pair of
\* distinct indices that can be drawn again and again is eventually drawn
FairGenSpec == GenSpec /\ WF_vars(NextGen) /\ SF_vars(DrawDistinct)
=============================================================================
